---- MODULE Spec2Model ----
(***************************************************************************)
(* Model of the graph-construction core of the narrative knowledge graph:  *)
(*   graph_builder/graph_validator.py   GraphValidator.validate            *)
(*   graph_builder/node_builder.py      NodeBuilder.build_nodes            *)
(* Python values are modelled as follows: None and a missing dict key are  *)
(* the two marker strings None and Absent, a str is a TLA+ string, a list  *)
(* is a sequence, a dict with fixed keys is a record, and the free-form    *)
(* "meta" dict is a set of <<key, value>> pairs.                           *)
(***************************************************************************)
EXTENDS Integers, Sequences, FiniteSets, TLC

VARIABLES
    pc,            \* position of the driver: which call has returned
    graph,         \* the graph dict handed to GraphValidator.validate
    cleaned,       \* what validate(graph) returned
    cleaned2,      \* what validate(cleaned) returned
    vlog,          \* logger.warning lines written by the last validate call
    raw_entities,  \* the list handed to NodeBuilder.build_nodes
    idx,           \* build_nodes: number of records the for loop has consumed
    nodes,         \* build_nodes: the local list "nodes"
    fetched,       \* per consumed record, what the summary source answered
    node_id_list,  \* the list handed to EdgeBuilder.build_edges as node_ids
    prop_idx,      \* build_edges: number of RELATION_MAP entries consumed
    all_edges,     \* build_edges: the local list "all_edges"
    sparql_log,    \* the relation-source queries made so far, with their answers
    categories,    \* the (fetch_fn, tag) entries of a build, each with what its
                   \* fetch does and the record objects it returns
    cat_idx,       \* build_multi: number of categories the for loop has consumed
    summary_calls, \* the titles the summary source was called with, one per call
    pipeline_log   \* run_pipeline: the steps that have run, in order

vars == <<pc, graph, cleaned, cleaned2, vlog, raw_entities, idx, nodes, fetched,
          node_id_list, prop_idx, all_edges, sparql_log, categories, cat_idx,
          summary_calls, pipeline_log>>

\* the variables of EdgeBuilder.build_edges, and their values while it is not running
edgeVars == <<node_id_list, prop_idx, all_edges, sparql_log>>
EdgeBuilderIdle ==
    /\ node_id_list = <<>>
    /\ prop_idx = 0
    /\ all_edges = <<>>
    /\ sparql_log = <<>>

\* the variables of a graph build, and their values while none is running
buildVars == <<categories, cat_idx>>
BuilderIdle ==
    /\ categories = <<>>
    /\ cat_idx = 0

-----------------------------------------------------------------------------
(* Python values *)

None == "<None>"
Absent == "<absent>"

\* bool(v) for the str-or-None values of this program
Truthy(v) == v \notin {None, Absent, ""}

-----------------------------------------------------------------------------
(* Bounds and input alphabets *)

MaxNodes == 3
MaxEdges == 2
MaxRecords == 2
MaxRows == 2

\* node dicts a graph may hold: the same id with and without an embedding,
\* and ids that never got one
NodeDicts ==
    {[id |-> "A", embedding |-> None], [id |-> "A", embedding |-> "vec"],
     [id |-> "B", embedding |-> None], [id |-> "C", embedding |-> None]}

\* edge endpoints a graph may hold: edges between nodes in both directions,
\* self-loops, and edges with a dangling target, a dangling source, or both
EdgePairs ==
    {<<"A", "B">>, <<"B", "A">>, <<"B", "C">>, <<"C", "C">>, <<"A", "A">>,
     <<"B", "X">>, <<"X", "A">>, <<"X", "X">>}
EdgeDicts == {[source |-> p[1], target |-> p[2], relation |-> "is_a"] : p \in EdgePairs}

\* raw records the entity source returns: fetch_entities_for_root gives "" for a
\* missing label or description, fetch_folklore gives None, and a source that
\* omits the label key gives Absent; the article title is None when unlinked
RawRecords ==
    [id : {"Q1"},
     label : {Absent, None, "", "L"},
     description : {None, "", "D"},
     atu_index : {None},
     wikipedia_title : {None, "T"}]
    \cup
    \* records without a usable id: the key missing, or null
    {[id |-> Absent, label |-> Absent, description |-> "D", atu_index |-> None,
      wikipedia_title |-> None],
     [id |-> None, label |-> "L", description |-> "", atu_index |-> None,
      wikipedia_title |-> "T"]}

\* what one call of the summary source does: it raises, it returns None (not
\* found), or it returns a dict whose "summary" is None, "" or text
SummaryResponses ==
    {[kind |-> "raise", summary |-> None, url |-> None],
     [kind |-> "none", summary |-> None, url |-> None]}
    \cup [kind : {"dict"}, summary : {None, "", "S"}, url : {"U"}]

\* the entry of "fetched" for a record the summary source was not asked about
NotCalled == [kind |-> "notcalled", summary |-> None, url |-> None]

SeqsUpTo(S, n) == UNION {[1..k -> S] : k \in 0..n}

-----------------------------------------------------------------------------
(* networkx.DiGraph as used by validate *)

\* G = nx.DiGraph(); G.add_node(id) for each node; G.add_edge(s, t) for each edge.
\* add_edge also adds endpoints that are not yet nodes; parallel edges collapse.
DiGraph(ns, es) ==
    [nodes |-> {ns[i].id : i \in DOMAIN ns}
                 \cup {es[i].source : i \in DOMAIN es}
                 \cup {es[i].target : i \in DOMAIN es},
     edges |-> {<<es[i].source, es[i].target>> : i \in DOMAIN es}]

\* (mutant) the degree taken as the out-degree alone
DegreeOutOnly(G, n) == Cardinality({e \in G.edges : e[1] = n})

\* G.degree(n): in-degree plus out-degree, a self-loop counting twice
Degree(G, n) ==
    Cardinality({e \in G.edges : e[1] = n}) + Cardinality({e \in G.edges : e[2] = n})

\* nx.isolates(G): the nodes of degree 0
Isolates(G) == {n \in G.nodes : Degree(G, n) = 0}

\* (mutant) the sweep following successors only, as for strong connectivity
RECURSIVE PlainBfsSuccessorsOnly(_, _, _)
PlainBfsSuccessorsOnly(G, seen, frontier) ==
    IF frontier = {} THEN seen
    ELSE LET next == {m \in G.nodes : \E n \in frontier : <<n, m>> \in G.edges}
         IN PlainBfsSuccessorsOnly(G, seen \cup next, next \ seen)

\* one breadth-first sweep over successors and predecessors (networkx _plain_bfs)
RECURSIVE PlainBfs(_, _, _)
PlainBfs(G, seen, frontier) ==
    IF frontier = {} THEN seen
    ELSE LET next == {m \in G.nodes :
                        \E n \in frontier : <<n, m>> \in G.edges \/ <<m, n>> \in G.edges}
         IN PlainBfs(G, seen \cup next, next \ seen)

\* nx.number_weakly_connected_components(G): one component per unseen start node
RECURSIVE CountComponents(_, _)
CountComponents(G, seen) ==
    IF G.nodes \subseteq seen THEN 0
    ELSE LET v == CHOOSE n \in G.nodes : n \notin seen
         IN 1 + CountComponents(G, seen \cup PlainBfs(G, {v}, {v}))

NumberWeaklyConnectedComponents(G) == CountComponents(G, {})

-----------------------------------------------------------------------------
(* GraphValidator.validate *)

\* (mutant) the loop testing the target alone
RECURSIVE ValidEdgesTargetOnly(_, _)
ValidEdgesTargetOnly(edges, node_ids) ==
    IF edges = <<>> THEN <<>>
    ELSE LET e == Head(edges)
         IN IF e.target \in node_ids
            THEN <<e>> \o ValidEdgesTargetOnly(Tail(edges), node_ids)
            ELSE ValidEdgesTargetOnly(Tail(edges), node_ids)

\* (mutant) the loop inserting each kept edge at the front of valid_edges
RECURSIVE ValidEdgesPrepend(_, _)
ValidEdgesPrepend(edges, node_ids) ==
    IF edges = <<>> THEN <<>>
    ELSE LET e == Head(edges)
         IN IF e.source \in node_ids /\ e.target \in node_ids
            THEN ValidEdgesPrepend(Tail(edges), node_ids) \o <<e>>
            ELSE ValidEdgesPrepend(Tail(edges), node_ids)

\* Step 1: the loop that appends every edge with both endpoints in node_ids
RECURSIVE ValidEdges(_, _)
ValidEdges(edges, node_ids) ==
    IF edges = <<>> THEN <<>>
    ELSE LET e == Head(edges)
         IN IF e.source \in node_ids /\ e.target \in node_ids
            THEN <<e>> \o ValidEdges(Tail(edges), node_ids)
            ELSE ValidEdges(Tail(edges), node_ids)

\* Step 5: ids of the nodes with "not n.get('embedding')"
RECURSIVE MissingEmb(_)
MissingEmb(ns) ==
    IF ns = <<>> THEN <<>>
    ELSE IF ~Truthy(Head(ns).embedding)
         THEN <<Head(ns).id>> \o MissingEmb(Tail(ns))
         ELSE MissingEmb(Tail(ns))

\* (mutant) validate removing the isolated nodes it found
ValidateDropIsolated(g) ==
    LET node_ids == {g.nodes[i].id : i \in DOMAIN g.nodes}
        edges == ValidEdges(g.edges, node_ids)
        G == DiGraph(g.nodes, edges)
        isolated == Isolates(G)
        weak_components == IF Cardinality(G.nodes) > 0
                           THEN NumberWeaklyConnectedComponents(G) ELSE 0
        IsKept(n) == n.id \notin isolated
    IN [nodes |-> SelectSeq(g.nodes, IsKept),
        edges |-> edges,
        meta |-> {<<"isolated_nodes", Cardinality(isolated)>>,
                  <<"weakly_connected_components", weak_components>>}]

\* (mutant) validate building the DiGraph from the edges before cleanup
ValidateUnfilteredDiGraph(g) ==
    LET node_ids == {g.nodes[i].id : i \in DOMAIN g.nodes}
        edges == ValidEdges(g.edges, node_ids)
        G == DiGraph(g.nodes, g.edges)
        isolated == Isolates(G)
        weak_components == IF Cardinality(G.nodes) > 0
                           THEN NumberWeaklyConnectedComponents(G) ELSE 0
    IN [nodes |-> g.nodes,
        edges |-> edges,
        meta |-> {<<"isolated_nodes", Cardinality(isolated)>>,
                  <<"weakly_connected_components", weak_components>>}]

\* the dict validate returns
Validate(g) ==
    LET node_ids == {g.nodes[i].id : i \in DOMAIN g.nodes}
        edges == ValidEdges(g.edges, node_ids)
        G == DiGraph(g.nodes, edges)
        isolated == Isolates(G)
        weak_components == IF Cardinality(G.nodes) > 0
                           THEN NumberWeaklyConnectedComponents(G) ELSE 0
    IN [nodes |-> g.nodes,
        edges |-> edges,
        meta |-> {<<"isolated_nodes", Cardinality(isolated)>>,
                  <<"weakly_connected_components", weak_components>>}]

\* the logger.warning lines of one validate call, in order
RECURSIVE RemovedEdgeWarnings(_, _)
RemovedEdgeWarnings(edges, node_ids) ==
    IF edges = <<>> THEN <<>>
    ELSE LET e == Head(edges)
         IN IF e.source \in node_ids /\ e.target \in node_ids
            THEN RemovedEdgeWarnings(Tail(edges), node_ids)
            ELSE <<[msg |-> "Removed invalid edge", args |-> <<e.source, e.target>>]>>
                 \o RemovedEdgeWarnings(Tail(edges), node_ids)

ValidateLog(g) ==
    LET node_ids == {g.nodes[i].id : i \in DOMAIN g.nodes}
        missing_emb == MissingEmb(g.nodes)
    IN RemovedEdgeWarnings(g.edges, node_ids)
       \o (IF missing_emb # <<>>
           THEN <<[msg |-> "Nodes missing embeddings", args |-> <<Len(missing_emb)>>]>>
           ELSE <<>>)

\* the meta dict MultiGraphBuilder.build_multi writes on the graph it returns
MergerMeta(ns, es) == {<<"total_nodes", Len(ns)>>, <<"total_edges", Len(es)>>}

EmptyGraph == [nodes |-> <<>>, edges |-> <<>>, meta |-> {}]

InitValidator ==
    /\ pc = "assembled"
    /\ \E ns \in SeqsUpTo(NodeDicts, MaxNodes), es \in SeqsUpTo(EdgeDicts, MaxEdges) :
         \E m \in {{}, MergerMeta(ns, es)} :
             graph = [nodes |-> ns, edges |-> es, meta |-> m]
    /\ cleaned = EmptyGraph
    /\ cleaned2 = EmptyGraph
    /\ vlog = <<>>
    /\ raw_entities = <<>>
    /\ idx = 0
    /\ nodes = <<>>
    /\ fetched = <<>>
    /\ summary_calls = <<>>
    /\ pipeline_log = <<>>
    /\ EdgeBuilderIdle
    /\ BuilderIdle

\* cleaned = GraphValidator().validate(graph)
ValidateGraph ==
    /\ pc = "assembled"
    /\ cleaned' = Validate(graph)
    /\ vlog' = ValidateLog(graph)
    /\ pc' = "validated"
    /\ UNCHANGED <<pipeline_log, graph, cleaned2, raw_entities, idx, nodes, fetched, summary_calls, edgeVars, buildVars>>

\* cleaned2 = GraphValidator().validate(cleaned)
RevalidateGraph ==
    /\ pc = "validated"
    /\ cleaned2' = Validate(cleaned)
    /\ vlog' = ValidateLog(cleaned)
    /\ pc' = "revalidated"
    /\ UNCHANGED <<pipeline_log, graph, cleaned, raw_entities, idx, nodes, fetched, summary_calls, edgeVars, buildVars>>

NextValidator == ValidateGraph \/ RevalidateGraph

SpecValidator == InitValidator /\ [][NextValidator]_vars

-----------------------------------------------------------------------------
(* Properties of GraphValidator.validate, checked under SpecValidator *)

Returned == pc \in {"validated", "revalidated"}

\* ids of the nodes of a graph dict
IdsOf(g) == {g.nodes[i].id : i \in DOMAIN g.nodes}

\* value stored under key k of a meta dict
MetaGet(meta, k) == (CHOOSE p \in meta : p[1] = k)[2]

\* positions of the input edges whose endpoints are both ids of input nodes
KeptPositions ==
    {i \in DOMAIN graph.edges :
        graph.edges[i].source \in IdsOf(graph) /\ graph.edges[i].target \in IdsOf(graph)}

\* C1: every edge of the graph validate returns has its source and its target
\* among the ids of the input nodes.
C1_EdgeEndpointClosure ==
    Returned =>
        \A i \in DOMAIN cleaned.edges :
            /\ cleaned.edges[i].source \in IdsOf(graph)
            /\ cleaned.edges[i].target \in IdsOf(graph)

\* validate has returned a non-empty edge list after dropping an edge whose
\* source is a node and whose target is not
C1_Witness ==
    /\ pc = "validated"
    /\ cleaned.edges # <<>>
    /\ \E i \in DOMAIN graph.edges :
           graph.edges[i].source \in IdsOf(graph) /\ graph.edges[i].target \notin IdsOf(graph)

\* C2: the returned edges are exactly the input edges with both endpoints known,
\* unaltered, each kept once per occurrence, in their input order: the j-th
\* returned edge is the input edge at the j-th smallest kept position.
C2_OrderPreservingFilter ==
    Returned =>
        /\ Len(cleaned.edges) = Cardinality(KeptPositions)
        /\ \A j \in DOMAIN cleaned.edges :
               LET i == CHOOSE k \in KeptPositions :
                            Cardinality({m \in KeptPositions : m <= k}) = j
               IN cleaned.edges[j] = graph.edges[i]

\* two different edges survived, the first of them not a self-loop
C2_Witness ==
    /\ pc = "validated"
    /\ Len(cleaned.edges) >= 2
    /\ cleaned.edges[1] # cleaned.edges[2]
    /\ cleaned.edges[1].source # cleaned.edges[1].target

\* C3: validate returns the input node sequence itself: same nodes, same order,
\* same field values, isolated nodes included.
C3_NodesUntouched ==
    Returned => cleaned.nodes = graph.nodes

\* a node lost its only edge to orphan removal and is still returned
C3_Witness ==
    /\ pc = "validated"
    /\ Len(cleaned.edges) < Len(graph.edges)
    /\ \E i \in DOMAIN cleaned.nodes :
           /\ \A j \in DOMAIN cleaned.edges :
                  cleaned.nodes[i].id \notin {cleaned.edges[j].source, cleaned.edges[j].target}
           /\ \E j \in DOMAIN graph.edges :
                  cleaned.nodes[i].id \in {graph.edges[j].source, graph.edges[j].target}

\* C4: validating the returned graph again returns the same nodes, the same
\* edges and the same isolated_nodes and weakly_connected_components.
C4_Idempotent ==
    pc = "revalidated" =>
        /\ cleaned2.nodes = cleaned.nodes
        /\ cleaned2.edges = cleaned.edges
        /\ MetaGet(cleaned2.meta, "isolated_nodes") = MetaGet(cleaned.meta, "isolated_nodes")
        /\ MetaGet(cleaned2.meta, "weakly_connected_components")
               = MetaGet(cleaned.meta, "weakly_connected_components")

\* the second validation ran on a graph whose first validation dropped an edge
\* and kept one
C4_Witness ==
    /\ pc = "revalidated"
    /\ cleaned.edges # <<>>
    /\ Len(cleaned.edges) < Len(graph.edges)
    /\ cleaned.nodes # <<>>

\* the undirected graph on the input node ids with the retained edges:
\* ids reachable from n in at most k steps, and the set of components
RECURSIVE Within(_, _)
Within(n, k) ==
    IF k = 0 THEN {n}
    ELSE LET prev == Within(n, k - 1)
         IN prev \cup {m \in IdsOf(graph) :
                \E j \in DOMAIN cleaned.edges :
                    \/ cleaned.edges[j].source \in prev /\ cleaned.edges[j].target = m
                    \/ cleaned.edges[j].target \in prev /\ cleaned.edges[j].source = m}
Components == {Within(n, Cardinality(IdsOf(graph))) : n \in IdsOf(graph)}

ScenarioGraph ==
    /\ [i \in DOMAIN graph.nodes |-> graph.nodes[i].id] = <<"A", "B", "C">>
    /\ [i \in DOMAIN graph.edges |-> <<graph.edges[i].source, graph.edges[i].target>>]
           = << <<"A", "B">>, <<"B", "X">> >>

\* C5: weakly_connected_components is the number of connected components,
\* direction ignored, of the graph on the input node ids with the retained
\* edges; 0 for no nodes; 2 for nodes A,B,C with edges (A,B), (B,X).
C5_WeakComponents ==
    Returned =>
        /\ MetaGet(cleaned.meta, "weakly_connected_components") = Cardinality(Components)
        /\ graph.nodes = <<>> => MetaGet(cleaned.meta, "weakly_connected_components") = 0
        /\ ScenarioGraph => MetaGet(cleaned.meta, "weakly_connected_components") = 2

\* the scenario of the specification has been validated
C5_Witness ==
    /\ pc = "validated"
    /\ ScenarioGraph
    /\ Len(cleaned.edges) = 1

\* C6: isolated_nodes is the number of distinct node ids that are neither source
\* nor target of a retained edge; a dropped edge does not count for its surviving
\* endpoint, a retained self-loop does.
C6_IsolatedNodes ==
    Returned =>
        MetaGet(cleaned.meta, "isolated_nodes") =
            Cardinality({n \in IdsOf(graph) :
                \A j \in DOMAIN cleaned.edges :
                    cleaned.edges[j].source # n /\ cleaned.edges[j].target # n})

\* a node whose only edge was dropped is counted isolated while a node with a
\* retained self-loop is not
C6_Witness ==
    /\ pc = "validated"
    /\ IdsOf(graph) = {"B", "C"}
    /\ \E i \in DOMAIN graph.edges : graph.edges[i].source = "B" /\ graph.edges[i].target = "X"
    /\ \E j \in DOMAIN cleaned.edges : cleaned.edges[j].source = "C" /\ cleaned.edges[j].target = "C"
    /\ MetaGet(cleaned.meta, "isolated_nodes") = 1

\* C7: every key/value of the input graph's meta is still in the returned meta.
C7_PriorMetaKept ==
    pc = "validated" => graph.meta \subseteq cleaned.meta

\* C8: the returned statistics hold the number of nodes without an embedding,
\* and nodes and edges are returned whatever that number is.
C8_MissingEmbeddingsReported ==
    pc = "validated" =>
        /\ \E p \in cleaned.meta :
               /\ p[1] \notin {"isolated_nodes", "weakly_connected_components"}
               /\ p[2] = Len(MissingEmb(graph.nodes))
        /\ cleaned.nodes = graph.nodes

-----------------------------------------------------------------------------
(* NodeBuilder *)

\* NodeBuilder(wiki_client=self.wiki): both builders construct it with a client
WikiClientPresent == TRUE

\* ent.get(key, default)
Get(ent, key, default) == IF ent[key] = Absent THEN default ELSE ent[key]

\* _build_single_node: the Node made from one raw record
BuildSingleNode(ent) ==
    LET qid == Get(ent, "id", None)
    IN [id |-> qid,
        label |-> Get(ent, "label", qid),
        description |-> Get(ent, "description", ""),
        summary |-> "",
        wikipedia_title |-> Get(ent, "wikipedia_title", None),
        wikipedia_url |-> None,
        atu_index |-> Get(ent, "atu_index", None),
        tags |-> <<>>,
        embedding |-> None]

\* (mutant) _fetch_wikipedia_summary without its try/except: the error escapes
FetchWikipediaSummaryNoCatch(resp) == resp

\* _fetch_wikipedia_summary: the client's answer, None when the client raised
\* (an answer of kind "raise" would be an error escaping to build_nodes)
FetchWikipediaSummary(resp) ==
    IF resp.kind = "raise" THEN [resp EXCEPT !.kind = "none"] ELSE resp

\* "if summary_data:" then summary and url are taken from the answer
ApplySummary(node, summary_data) ==
    IF summary_data.kind = "dict"
    THEN [node EXCEPT !.summary = summary_data.summary,
                      !.wikipedia_url = summary_data.url]
    ELSE node

\* (mutant) the summary fallback taking the label before the description
SummaryFallbackLabelFirst(node) ==
    IF ~Truthy(node.summary)
    THEN [node EXCEPT !.summary =
              IF Truthy(node.label) THEN node.label ELSE node.description]
    ELSE node

\* "if not node.summary: node.summary = node.description or node.label"
SummaryFallback(node) ==
    IF ~Truthy(node.summary)
    THEN [node EXCEPT !.summary =
              IF Truthy(node.description) THEN node.description ELSE node.label]
    ELSE node

\* the summary source is asked about a node: it has a title and there is a client
Asked(node) == Truthy(node.wikipedia_title) /\ WikiClientPresent

\* (mutant) the loop body asking the summary source a second time when the
\* first call gave nothing
BuildOneNodeRetry(ent, resp) ==
    LET node == BuildSingleNode(ent)
        summary_data == IF Asked(node) THEN FetchWikipediaSummary(resp) ELSE NotCalled
    IN [raised |-> summary_data.kind = "raise",
        asked |-> IF Asked(node)
                  THEN IF summary_data.kind = "none"
                       THEN <<node.wikipedia_title, node.wikipedia_title>>
                       ELSE <<node.wikipedia_title>>
                  ELSE <<>>,
        node |-> SummaryFallback(ApplySummary(node, summary_data))]

\* the body of the for loop of build_nodes for one record, given what the summary
\* source does if it is called: the node appended, the calls made, or an error
\* that escaped
BuildOneNode(ent, resp) ==
    LET node == BuildSingleNode(ent)
        summary_data == IF Asked(node) THEN FetchWikipediaSummary(resp) ELSE NotCalled
    IN [raised |-> summary_data.kind = "raise",
        asked |-> IF Asked(node) THEN <<node.wikipedia_title>> ELSE <<>>,
        node |-> SummaryFallback(ApplySummary(node, summary_data))]

InitNodeBuilder ==
    /\ pc = "build_nodes"
    /\ raw_entities \in SeqsUpTo(RawRecords, MaxRecords)
    /\ idx = 0
    /\ nodes = <<>>
    /\ fetched = <<>>
    /\ summary_calls = <<>>
    /\ pipeline_log = <<>>
    /\ graph = EmptyGraph
    /\ cleaned = EmptyGraph
    /\ cleaned2 = EmptyGraph
    /\ vlog = <<>>
    /\ EdgeBuilderIdle
    /\ BuilderIdle

\* one iteration of the for loop of build_nodes
BuildNodesStep ==
    /\ pc = "build_nodes"
    /\ idx < Len(raw_entities)
    /\ LET ent == raw_entities[idx + 1]
       IN \E resp \in (IF Asked(BuildSingleNode(ent)) THEN SummaryResponses
                       ELSE {NotCalled}) :
            LET built == BuildOneNode(ent, resp)
            IN /\ IF built.raised
                  THEN /\ pc' = "raised"
                       /\ UNCHANGED <<nodes, fetched, idx>>
                  ELSE /\ nodes' = Append(nodes, built.node)
                       /\ fetched' = Append(fetched, resp)
                       /\ idx' = idx + 1
                       /\ pc' = pc
               /\ summary_calls' = summary_calls \o built.asked
    /\ UNCHANGED <<pipeline_log, raw_entities, graph, cleaned, cleaned2, vlog, edgeVars, buildVars>>

\* the loop is over: build_nodes returns "nodes"
BuildNodesReturn ==
    /\ pc = "build_nodes"
    /\ idx = Len(raw_entities)
    /\ pc' = "nodes_built"
    /\ UNCHANGED <<pipeline_log, raw_entities, idx, nodes, fetched, summary_calls, graph, cleaned, cleaned2, vlog,
                   edgeVars, buildVars>>

NextNodeBuilder == BuildNodesStep \/ BuildNodesReturn

SpecNodeBuilder == InitNodeBuilder /\ [][NextNodeBuilder]_vars

-----------------------------------------------------------------------------
(* Properties of NodeBuilder.build_nodes, checked under SpecNodeBuilder *)

\* the summary source returned non-empty text for the i-th node
FetchedText(i) == fetched[i].kind = "dict" /\ Truthy(fetched[i].summary)

\* C9: a node's summary is the fetched text when the summary source returned
\* non-empty text; otherwise the description when that is non-empty; otherwise
\* the label.
C9_SummaryResolution ==
    \A i \in DOMAIN nodes :
        /\ FetchedText(i) => nodes[i].summary = fetched[i].summary
        /\ (~FetchedText(i) /\ Truthy(nodes[i].description))
               => nodes[i].summary = nodes[i].description
        /\ (~FetchedText(i) /\ ~Truthy(nodes[i].description))
               => nodes[i].summary = nodes[i].label

\* build_nodes returned one node that took the description because the fetched
\* summary was empty, and one that took the label although it had a title
C9_Witness ==
    /\ pc = "nodes_built"
    /\ \E i \in DOMAIN nodes :
           /\ fetched[i].kind = "dict" /\ fetched[i].summary = ""
           /\ nodes[i].summary = "D"
    /\ \E i \in DOMAIN nodes :
           /\ fetched[i].kind = "raise"
           /\ nodes[i].description = ""
           /\ nodes[i].summary = "L"

\* C10: every node build_nodes returns has a summary that is neither None nor "".
C10_SummaryNeverEmpty ==
    \A i \in DOMAIN nodes : Truthy(nodes[i].summary)


\* C11: build_nodes returns no node for a record without a usable id: no
\* returned node has a missing or null id.
C11_NoNodeWithoutId ==
    \A i \in DOMAIN nodes : Truthy(nodes[i].id)

\* C12: when the summary source raises or answers not-found, no error escapes
\* build_nodes, the record's node is built with the description, or the label
\* when the description is empty, as its summary, and every record of the
\* batch has its node when build_nodes returns.
C12_SummaryFailureContained ==
    /\ pc # "raised"
    /\ \A i \in DOMAIN nodes :
           fetched[i].kind \in {"raise", "none"} =>
               /\ nodes[i].wikipedia_title = raw_entities[i].wikipedia_title
               /\ nodes[i].summary =
                      IF Truthy(nodes[i].description) THEN nodes[i].description
                      ELSE nodes[i].label
    /\ pc = "nodes_built" => Len(nodes) = Len(raw_entities)

\* build_nodes returned two nodes: the summary source raised for the first,
\* which took its description, and the second record was still processed
C12_Witness ==
    /\ pc = "nodes_built"
    /\ Len(nodes) = 2
    /\ fetched[1].kind = "raise"
    /\ nodes[1].summary = "D"
    /\ fetched[2].kind = "none"
    /\ nodes[2].summary = "L"

\* C20: every node has a non-empty label, and a record whose label is missing,
\* null or empty gives a node whose label is its id (stated for the records
\* that have an id, so that a missing id is not what breaks it).
C20_LabelDefaultsToId ==
    \A i \in DOMAIN nodes :
        Truthy(nodes[i].id) =>
            /\ Truthy(nodes[i].label)
            /\ ~Truthy(raw_entities[i].label) => nodes[i].label = nodes[i].id


-----------------------------------------------------------------------------
(* EdgeBuilder *)

\* elements of a Python list that may hold str ids or node dicts: "x in xs"
\* compares with ==, and a str never equals a dict
PyStr(v) == [py |-> "str", v |-> v]
PyDict(d) == [py |-> "dict", v |-> d]
PyNone == [py |-> "NoneType", v |-> None]
PyEq(a, b) == a.py = b.py /\ a.v = b.v
InList(x, xs) == \E i \in DOMAIN xs : PyEq(xs[i], x)

\* EdgeBuilder.RELATION_MAP, in dict order
RELATION_MAP ==
    <<[property_id |-> "P31", relation_name |-> "is_a"],
      [property_id |-> "P279", relation_name |-> "is_a"],
      [property_id |-> "P737", relation_name |-> "inspired_by"],
      [property_id |-> "P144", relation_name |-> "based_on"],
      [property_id |-> "P921", relation_name |-> "associated_with"]>>

\* an entity URI as its "/"-separated segments, and value.split("/")[-1]
Uri(qid) == <<"http:", "", "www.wikidata.org", "entity", qid>>
LastSegment(uri) == uri[Len(uri)]

\* a binding whose key is missing from the row
MissingBinding == <<>>

\* rows the relation source may return: subject and object known, the object
\* unknown, the subject unknown, and a row without an "object" binding
RelationRows ==
    {[subject |-> Uri("Q1"), object |-> Uri("Q2")],
     [subject |-> Uri("Q2"), object |-> Uri("Q1")],
     [subject |-> Uri("Q1"), object |-> Uri("QX")],
     [subject |-> Uri("QX"), object |-> Uri("Q1")],
     [subject |-> Uri("Q2"), object |-> MissingBinding]}

\* what one run_sparql call does: it raises, or it returns rows
RaisedAnswer == [kind |-> "raise", rows |-> <<>>]
RowsAnswer(rows) == [kind |-> "rows", rows |-> rows]

\* the lists build_edges is called with by GraphBuilder.build: the node ids
NodeIdLists ==
    {<<>>, <<PyStr("Q1")>>, <<PyStr("Q1"), PyStr("Q2")>>, <<PyStr("Q2"), PyStr("Q1")>>}

\* (mutant) the row loop putting each new edge in front of the earlier ones
RECURSIVE RowsToEdgesNewestFirst(_, _, _, _)
RowsToEdgesNewestFirst(rows, ids, property_id, relation_name) ==
    IF rows = <<>> THEN <<>>
    ELSE LET row == Head(rows)
             rest == RowsToEdgesNewestFirst(Tail(rows), ids, property_id, relation_name)
         IN IF row.subject = MissingBinding \/ row.object = MissingBinding
            THEN rest
            ELSE IF ~InList(PyStr(LastSegment(row.object)), ids)
                 THEN rest
                 ELSE rest \o <<[source |-> LastSegment(row.subject),
                                 target |-> LastSegment(row.object),
                                 relation |-> relation_name,
                                 weight |-> 1,
                                 detection_method |-> <<"wikidata", property_id>>]>>

\* the for loop over the rows of one answer
RECURSIVE RowsToEdges(_, _, _, _)
RowsToEdges(rows, ids, property_id, relation_name) ==
    IF rows = <<>> THEN <<>>
    ELSE LET row == Head(rows)
             rest == RowsToEdges(Tail(rows), ids, property_id, relation_name)
         IN IF row.subject = MissingBinding \/ row.object = MissingBinding
            THEN rest   \* KeyError, caught and logged per row
            ELSE LET source_qid == LastSegment(row.subject)
                     target_qid == LastSegment(row.object)
                 IN IF ~InList(PyStr(target_qid), ids)
                    THEN rest
                    ELSE <<[source |-> source_qid,
                            target |-> target_qid,
                            relation |-> relation_name,
                            weight |-> 1,
                            detection_method |-> <<"wikidata", property_id>>]>>
                         \o rest

\* (mutant) _fetch_edges_for_property without the try/except around run_sparql
FetchEdgesForPropertyNoCatch(ids, property_id, relation_name, answer) ==
    IF ids = <<>>
    THEN [raised |-> FALSE, queried |-> FALSE, edges |-> <<>>]
    ELSE IF answer.kind = "raise"
         THEN [raised |-> TRUE, queried |-> TRUE, edges |-> <<>>]
         ELSE [raised |-> FALSE, queried |-> TRUE,
               edges |-> RowsToEdges(answer.rows, ids, property_id, relation_name)]

\* _fetch_edges_for_property, given what run_sparql does if it is called: the
\* edges returned, whether the query was made, whether an error escaped
FetchEdgesForProperty(ids, property_id, relation_name, answer) ==
    IF ids = <<>>
    THEN [raised |-> FALSE, queried |-> FALSE, edges |-> <<>>]
    ELSE IF answer.kind = "raise"
         THEN [raised |-> FALSE, queried |-> TRUE, edges |-> <<>>]
         ELSE [raised |-> FALSE, queried |-> TRUE,
               edges |-> RowsToEdges(answer.rows, ids, property_id, relation_name)]

\* rows returned so far by the relation source
RECURSIVE RowsIn(_)
RowsIn(log) ==
    IF log = <<>> THEN 0 ELSE Len(Head(log).answer.rows) + RowsIn(Tail(log))

InitEdgeBuilder ==
    /\ pc = "build_edges"
    /\ node_id_list \in NodeIdLists
    /\ prop_idx = 0
    /\ all_edges = <<>>
    /\ sparql_log = <<>>
    /\ graph = EmptyGraph
    /\ cleaned = EmptyGraph
    /\ cleaned2 = EmptyGraph
    /\ vlog = <<>>
    /\ raw_entities = <<>>
    /\ idx = 0
    /\ nodes = <<>>
    /\ fetched = <<>>
    /\ summary_calls = <<>>
    /\ pipeline_log = <<>>
    /\ BuilderIdle

\* one iteration of the for loop of build_edges
BuildEdgesStep ==
    /\ pc = "build_edges"
    /\ prop_idx < Len(RELATION_MAP)
    /\ LET entry == RELATION_MAP[prop_idx + 1]
       IN \E answer \in {RaisedAnswer}
                \cup {RowsAnswer(rows) :
                        rows \in SeqsUpTo(RelationRows, MaxRows - RowsIn(sparql_log))} :
            LET got == FetchEdgesForProperty(node_id_list, entry.property_id,
                                             entry.relation_name, answer)
            IN /\ got.queried \/ answer = RowsAnswer(<<>>)
               /\ sparql_log' = IF got.queried
                                THEN Append(sparql_log, [property_id |-> entry.property_id,
                                                         answer |-> answer])
                                ELSE sparql_log
               /\ IF got.raised
                  THEN /\ pc' = "raised"
                       /\ UNCHANGED <<all_edges, prop_idx>>
                  ELSE /\ all_edges' = all_edges \o got.edges
                       /\ prop_idx' = prop_idx + 1
                       /\ pc' = pc
    /\ UNCHANGED <<pipeline_log, node_id_list, graph, cleaned, cleaned2, vlog, raw_entities, idx,
                   nodes, fetched, summary_calls, buildVars>>

\* the loop is over: build_edges returns "all_edges"
BuildEdgesReturn ==
    /\ pc = "build_edges"
    /\ prop_idx = Len(RELATION_MAP)
    /\ pc' = "edges_built"
    /\ UNCHANGED <<pipeline_log, edgeVars, graph, cleaned, cleaned2, vlog, raw_entities, idx,
                   nodes, fetched, summary_calls, buildVars>>

NextEdgeBuilder == BuildEdgesStep \/ BuildEdgesReturn

SpecEdgeBuilder == InitEdgeBuilder /\ [][NextEdgeBuilder]_vars

-----------------------------------------------------------------------------
(* Properties of EdgeBuilder.build_edges, checked under SpecEdgeBuilder *)

\* C13: no edge build_edges returns has a source or a target outside the given
\* node ids, whatever rows the relation source returned.
C13_BothEndpointsKnown ==
    \A i \in DOMAIN all_edges :
        /\ InList(PyStr(all_edges[i].source), node_id_list)
        /\ InList(PyStr(all_edges[i].target), node_id_list)

\* edges built from the answer to the query for property_id
EdgesOf(property_id) ==
    SelectSeq(all_edges, LAMBDA e : e.detection_method = <<"wikidata", property_id>>)

\* the rows of an answer that have both bindings and a known object
UsableRows(rows) ==
    SelectSeq(rows, LAMBDA r :
        /\ r.subject # MissingBinding
        /\ r.object # MissingBinding
        /\ InList(PyStr(LastSegment(r.object)), node_id_list))

\* C14: a failed query gives zero edges for its relation type and no error;
\* every entry of the relation table is still queried, and every other type's
\* usable rows are returned as its edges.
C14_PartialFailureIsolation ==
    /\ pc # "raised"
    /\ \A k \in DOMAIN sparql_log :
           sparql_log[k].answer.kind = "raise" => EdgesOf(sparql_log[k].property_id) = <<>>
    /\ (pc = "edges_built" /\ node_id_list # <<>>) =>
           /\ [k \in DOMAIN sparql_log |-> sparql_log[k].property_id]
                  = [k \in DOMAIN RELATION_MAP |-> RELATION_MAP[k].property_id]
           /\ \A k \in DOMAIN sparql_log :
                  Len(EdgesOf(sparql_log[k].property_id))
                      = Len(UsableRows(sparql_log[k].answer.rows))

\* build_edges returned: the first query failed and a later one gave an edge
C14_Witness ==
    /\ pc = "edges_built"
    /\ sparql_log # <<>>
    /\ sparql_log[1].answer.kind = "raise"
    /\ \E k \in DOMAIN sparql_log : k > 1 /\ EdgesOf(sparql_log[k].property_id) # <<>>
    /\ EdgesOf("P31") = <<>>

-----------------------------------------------------------------------------
(* graph builds: what a fetch function and the two remote sources may do *)

MaxCategories == 2

GenreTags == {"Folklore", "Myth"}

\* the record objects a fetch function returns (WikidataClient builds a fresh
\* dict per result row, so no object is shared between two fetches); none of
\* them carries "_source_genre" yet
CategoryRecords ==
    {[id |-> "Q1", label |-> "L", description |-> "D", atu_index |-> None,
      wikipedia_title |-> None, _source_genre |-> Absent],
     [id |-> "Q2", label |-> "L", description |-> "", atu_index |-> None,
      wikipedia_title |-> "T", _source_genre |-> Absent],
     [id |-> "Q1", label |-> "", description |-> "", atu_index |-> "A",
      wikipedia_title |-> None, _source_genre |-> Absent]}

\* what one call of a fetch function does: it raises, or it returns a list
RaisedFetch == [kind |-> "raise", records |-> <<>>]
ReturnedFetch(records) == [kind |-> "records", records |-> records]
FetchOutcomes ==
    {RaisedFetch} \cup {ReturnedFetch(rs) : rs \in SeqsUpTo(CategoryRecords, MaxRecords)}

\* the (fetch_fn, genre_tag, limit) triples handed to build_multi
CategoryEntries == [genre_tag : GenreTags, fetch : FetchOutcomes]

RECURSIVE RecordsIn(_)
RecordsIn(cats) ==
    IF cats = <<>> THEN 0 ELSE Len(Head(cats).fetch.records) + RecordsIn(Tail(cats))

CategoryLists ==
    {cs \in SeqsUpTo(CategoryEntries, MaxCategories) : RecordsIn(cs) <= MaxRecords}

\* what the summary source does for each record of a build_nodes call: one
\* answer per record it is asked about
SummaryAnswersFor(raws) ==
    {resps \in [DOMAIN raws -> SummaryResponses \cup {NotCalled}] :
        \A k \in DOMAIN raws :
            IF Asked(BuildSingleNode(raws[k]))
            THEN resps[k] # NotCalled
            ELSE resps[k] = NotCalled}

\* what the relation source does for the five queries of one build_edges call
NoRows == RowsAnswer(<<>>)
SubjectObject(s, o) == [subject |-> Uri(s), object |-> Uri(o)]
RelationAnswerSets ==
    {<<NoRows, NoRows, NoRows, NoRows, NoRows>>,
     <<RowsAnswer(<<SubjectObject("Q1", "Q2")>>), NoRows, NoRows, NoRows, NoRows>>,
     <<RaisedAnswer, RowsAnswer(<<SubjectObject("Q2", "Q1")>>), NoRows, NoRows, NoRows>>,
     <<RowsAnswer(<<SubjectObject("Q1", "Q2"), SubjectObject("Q1", "QX")>>), NoRows,
       NoRows, NoRows, RowsAnswer(<<SubjectObject("QX", "Q1")>>)>>,
     <<RaisedAnswer, RaisedAnswer, RaisedAnswer, RaisedAnswer, RaisedAnswer>>}

\* (mutant) build_nodes dropping a record whose id an earlier node already has
RECURSIVE BuildNodesDedupById(_, _)
BuildNodesDedupById(raws, resps) ==
    IF raws = <<>>
    THEN [raised |-> FALSE, nodes |-> <<>>, asked |-> <<>>]
    ELSE LET n == Len(raws)
             front == BuildNodesDedupById(SubSeq(raws, 1, n - 1), SubSeq(resps, 1, n - 1))
             built == BuildOneNode(raws[n], resps[n])
         IN IF \E j \in DOMAIN front.nodes : front.nodes[j].id = built.node.id
            THEN front
            ELSE [raised |-> front.raised \/ built.raised,
                  nodes |-> Append(front.nodes, built.node),
                  asked |-> front.asked \o built.asked]

\* build_nodes as one call: the nodes of all records, in order
RECURSIVE BuildNodes(_, _)
BuildNodes(raws, resps) ==
    IF raws = <<>>
    THEN [raised |-> FALSE, nodes |-> <<>>, asked |-> <<>>]
    ELSE LET built == BuildOneNode(Head(raws), Head(resps))
             rest == BuildNodes(Tail(raws), Tail(resps))
         IN IF built.raised
            THEN [raised |-> TRUE, nodes |-> <<>>, asked |-> built.asked]
            ELSE IF rest.raised
                 THEN [raised |-> TRUE, nodes |-> <<>>,
                       asked |-> built.asked \o rest.asked]
                 ELSE [raised |-> FALSE, nodes |-> <<built.node>> \o rest.nodes,
                       asked |-> built.asked \o rest.asked]

\* build_edges as one call over RELATION_MAP from entry k on: the edges, and
\* the queries made with their answers
RECURSIVE BuildEdgesFrom(_, _, _)
BuildEdgesFrom(ids, answers, k) ==
    IF k > Len(RELATION_MAP)
    THEN [raised |-> FALSE, edges |-> <<>>, log |-> <<>>]
    ELSE LET got == FetchEdgesForProperty(ids, RELATION_MAP[k].property_id,
                                          RELATION_MAP[k].relation_name, answers[k])
             rest == BuildEdgesFrom(ids, answers, k + 1)
             asked == IF got.queried
                      THEN <<[property_id |-> RELATION_MAP[k].property_id,
                              answer |-> answers[k]]>>
                      ELSE <<>>
         IN IF got.raised
            THEN [raised |-> TRUE, edges |-> <<>>, log |-> asked]
            ELSE [raised |-> rest.raised,
                  edges |-> got.edges \o rest.edges,
                  log |-> asked \o rest.log]

BuildEdges(ids, answers) == BuildEdgesFrom(ids, answers, 1)

-----------------------------------------------------------------------------
(* MultiGraphBuilder.build_multi *)

\* for r in raw: r["_source_genre"] = genre_tag (the record objects are changed)
TagRecords(raw, genre_tag) ==
    [k \in DOMAIN raw |-> [raw[k] EXCEPT !["_source_genre"] = genre_tag]]

\* (mutant) an empty category ends the build with an error
FetchCategoryEmptyAborts(entry, all_raw) ==
    [raised |-> entry.fetch.kind = "raise" \/ entry.fetch.records = <<>>,
     raw |-> TagRecords(entry.fetch.records, entry.genre_tag),
     all |-> all_raw \o TagRecords(entry.fetch.records, entry.genre_tag)]

\* one iteration of the for loop over categories: the fetch (whose error is
\* not caught), the "if not raw: continue", the tagging and the extend
FetchCategory(entry, all_raw) ==
    IF entry.fetch.kind = "raise"
    THEN [raised |-> TRUE, raw |-> entry.fetch.records, all |-> all_raw]
    ELSE IF entry.fetch.records = <<>>
         THEN [raised |-> FALSE, raw |-> entry.fetch.records, all |-> all_raw]
         ELSE [raised |-> FALSE,
               raw |-> TagRecords(entry.fetch.records, entry.genre_tag),
               all |-> all_raw \o TagRecords(entry.fetch.records, entry.genre_tag)]

\* (mutant) every node gets the tag of the last record
InjectLastGenre(ns, raws) ==
    [k \in DOMAIN ns |->
        ns[k] @@ [source_genre |-> Get(raws[Len(raws)], "_source_genre", "Unknown")]]

\* for node, raw in zip(nodes, all_raw_entities): node.source_genre = ...
\* (build_nodes returns one node per record, so zip pairs every node)
InjectSourceGenre(ns, raws) ==
    [k \in DOMAIN ns |->
        ns[k] @@ [source_genre |-> Get(raws[k], "_source_genre", "Unknown")]]

\* the node dictionary build_multi makes from a Node
MultiNodeDict(n) ==
    [id |-> n.id,
     label |-> n.label,
     description |-> n.description,
     summary |-> n.summary,
     atu_index |-> n.atu_index,
     wikipedia_title |-> n.wikipedia_title,
     wikipedia_url |-> n.wikipedia_url,
     tags |-> n.tags,
     embedding |-> None,
     source_genre |-> n.source_genre]

\* the "meta" of the unified graph
MultiMeta(ns, es, cats) ==
    [total_nodes |-> Len(ns),
     total_edges |-> Len(es),
     categories |-> [k \in DOMAIN cats |-> cats[k].genre_tag]]

\* build_multi after the loop: nodes, tags, node dictionaries, edges, graph
AssembleMulti(all_raw, resps, answers, cats) ==
    LET built == BuildNodes(all_raw, resps)
        tagged == InjectSourceGenre(built.nodes, all_raw)
        node_dicts == [k \in DOMAIN tagged |-> MultiNodeDict(tagged[k])]
        ids == [k \in DOMAIN node_dicts |-> PyDict(node_dicts[k])]
        built_edges == BuildEdges(ids, answers)
    IN [raised |-> built.raised \/ built_edges.raised,
        asked |-> built.asked,
        nodes |-> tagged,
        ids |-> ids,
        log |-> built_edges.log,
        graph |-> [nodes |-> node_dicts,
                   edges |-> built_edges.edges,
                   meta |-> MultiMeta(node_dicts, built_edges.edges, cats)]]

InitMulti ==
    /\ pc = "multi_fetch"
    /\ categories \in CategoryLists
    /\ cat_idx = 0
    /\ raw_entities = <<>>
    /\ idx = 0
    /\ nodes = <<>>
    /\ fetched = <<>>
    /\ summary_calls = <<>>
    /\ pipeline_log = <<>>
    /\ graph = EmptyGraph
    /\ cleaned = EmptyGraph
    /\ cleaned2 = EmptyGraph
    /\ vlog = <<>>
    /\ EdgeBuilderIdle

\* one iteration of the loop over categories
MultiFetchStep ==
    /\ pc = "multi_fetch"
    /\ cat_idx < Len(categories)
    /\ LET got == FetchCategory(categories[cat_idx + 1], raw_entities)
       IN IF got.raised
          THEN /\ pc' = "raised"
               /\ UNCHANGED <<categories, cat_idx, raw_entities>>
          ELSE /\ categories' = [categories EXCEPT ![cat_idx + 1].fetch.records = got.raw]
               /\ cat_idx' = cat_idx + 1
               /\ raw_entities' = got.all
               /\ pc' = pc
    /\ UNCHANGED <<pipeline_log, graph, cleaned, cleaned2, vlog, idx, nodes, fetched, summary_calls, edgeVars>>

\* the rest of build_multi, once every category has been fetched
MultiAssemble ==
    /\ pc = "multi_fetch"
    /\ cat_idx = Len(categories)
    /\ \E resps \in SummaryAnswersFor(raw_entities), answers \in RelationAnswerSets :
          LET out == AssembleMulti(raw_entities, resps, answers, categories)
          IN /\ summary_calls' = out.asked
             /\ IF out.raised
                THEN /\ pc' = "raised"
                     /\ UNCHANGED <<nodes, fetched, node_id_list, sparql_log, graph>>
                ELSE /\ nodes' = out.nodes
                     /\ fetched' = resps
                     /\ node_id_list' = out.ids
                     /\ sparql_log' = out.log
                     /\ graph' = out.graph
                     /\ pc' = "multi_done"
    /\ UNCHANGED <<pipeline_log, cleaned, cleaned2, vlog, raw_entities, idx, prop_idx, all_edges,
                   buildVars>>

NextMulti == MultiFetchStep \/ MultiAssemble

SpecMulti == InitMulti /\ [][NextMulti]_vars

-----------------------------------------------------------------------------
(* claims about build_multi *)

\* the records of all categories, in category order
RECURSIVE Flatten(_)
Flatten(cats) ==
    IF cats = <<>> THEN <<>> ELSE Head(cats).fetch.records \o Flatten(Tail(cats))

\* for each record of Flatten, the label of the category entry that returned it
RECURSIVE OwnerTags(_)
OwnerTags(cats) ==
    IF cats = <<>>
    THEN <<>>
    ELSE [k \in DOMAIN Head(cats).fetch.records |-> Head(cats).genre_tag]
             \o OwnerTags(Tail(cats))

\* C15: an empty category does not abort the build: an error leaves build_multi
\* only at a category whose fetch raised, and the returned graph has consumed
\* every category and has exactly the records of all categories as its nodes,
\* in order (so no node at all when every category is empty).
C15_EmptyCategorySkipped ==
    /\ pc = "raised" => categories[cat_idx + 1].fetch.kind = "raise"
    /\ pc = "multi_done" =>
           /\ cat_idx = Len(categories)
           /\ Len(graph.nodes) = Len(Flatten(categories))
           /\ \A k \in DOMAIN graph.nodes :
                  /\ graph.nodes[k].id = Flatten(categories)[k].id
                  /\ graph.nodes[k].description = Flatten(categories)[k].description
           /\ Flatten(categories) = <<>> => graph.nodes = <<>> /\ graph.edges = <<>>

\* build_multi returned a graph with nodes although its first category was empty
C15_Witness ==
    /\ pc = "multi_done"
    /\ Len(categories) = 2
    /\ categories[1].fetch = ReturnedFetch(<<>>)
    /\ categories[2].fetch.records # <<>>
    /\ graph.nodes # <<>>

\* C16: an error raised by a category's fetch never reaches the caller of
\* build_multi.
C16_FetchErrorContained == pc # "raised"

MergedIds == {graph.nodes[k].id : k \in DOMAIN graph.nodes}

\* C18: every (subject, object) pair returned by the relation source whose
\* subject and object are both ids of merged nodes is an edge of the graph
\* returned by build_multi.
C18_EdgesOverUnion ==
    pc = "multi_done" =>
        \A j \in DOMAIN sparql_log :
            \A i \in DOMAIN sparql_log[j].answer.rows :
                LET r == sparql_log[j].answer.rows[i]
                IN (/\ r.subject # MissingBinding
                    /\ r.object # MissingBinding
                    /\ LastSegment(r.subject) \in MergedIds
                    /\ LastSegment(r.object) \in MergedIds)
                   => \E e \in DOMAIN graph.edges :
                          /\ graph.edges[e].source = LastSegment(r.subject)
                          /\ graph.edges[e].target = LastSegment(r.object)

-----------------------------------------------------------------------------
(* GraphBuilder.build *)

\* "n.id" as an element of the node_ids list
PyId(qid) == IF qid = None THEN PyNone ELSE PyStr(qid)

\* GraphBuilder._node_to_dict
NodeToDict(node) ==
    [id |-> node.id,
     label |-> node.label,
     description |-> node.description,
     summary |-> node.summary,
     atu_index |-> node.atu_index,
     wikipedia_title |-> node.wikipedia_title,
     wikipedia_url |-> node.wikipedia_url,
     tags |-> node.tags,
     embedding |-> node.embedding]

\* the graph of the two early returns of build
NoDataGraph == [nodes |-> <<>>, edges |-> <<>>]

\* (mutant) "No entities retrieved. Graph cannot be built." ends in an error
FetchForBuildRaiseOnEmpty(fetch) ==
    [raised |-> fetch.kind = "raise" \/ fetch.records = <<>>,
     returns |-> FALSE,
     raw_entities |-> fetch.records]

\* the start of build: the fetch (whose error is not caught) and the
\* "if not raw_entities" return
FetchForBuild(fetch) ==
    [raised |-> fetch.kind = "raise",
     returns |-> fetch.kind # "raise" /\ fetch.records = <<>>,
     raw_entities |-> fetch.records]

\* build after the fetch: nodes, the "if not nodes" return, edges from the
\* node ids, node dictionaries, graph
AssembleGraph(raws, resps, answers) ==
    LET built == BuildNodes(raws, resps)
        ids == [k \in DOMAIN built.nodes |-> PyId(built.nodes[k].id)]
        built_edges == BuildEdges(ids, answers)
    IN IF built.raised
       THEN [raised |-> TRUE, asked |-> built.asked, nodes |-> <<>>, ids |-> <<>>,
             log |-> <<>>, graph |-> NoDataGraph]
       ELSE IF built.nodes = <<>>
            THEN [raised |-> FALSE, asked |-> built.asked, nodes |-> <<>>,
                  ids |-> <<>>, log |-> <<>>, graph |-> NoDataGraph]
            ELSE [raised |-> built_edges.raised,
                  asked |-> built.asked,
                  nodes |-> built.nodes,
                  ids |-> ids,
                  log |-> built_edges.log,
                  graph |-> [nodes |-> [k \in DOMAIN built.nodes |->
                                           NodeToDict(built.nodes[k])],
                             edges |-> built_edges.edges]]

\* build takes one fetch function and no label
InitBuild ==
    /\ pc = "build"
    /\ \E fetch \in FetchOutcomes : categories = <<[genre_tag |-> None, fetch |-> fetch]>>
    /\ cat_idx = 0
    /\ raw_entities = <<>>
    /\ idx = 0
    /\ nodes = <<>>
    /\ fetched = <<>>
    /\ summary_calls = <<>>
    /\ pipeline_log = <<>>
    /\ graph = EmptyGraph
    /\ cleaned = EmptyGraph
    /\ cleaned2 = EmptyGraph
    /\ vlog = <<>>
    /\ EdgeBuilderIdle

\* build up to and including its first return
BuildFetch ==
    /\ pc = "build"
    /\ LET got == FetchForBuild(categories[1].fetch)
       IN IF got.raised
          THEN /\ pc' = "raised"
               /\ UNCHANGED <<raw_entities, graph>>
          ELSE IF got.returns
               THEN /\ pc' = "build_done"
                    /\ graph' = NoDataGraph
                    /\ UNCHANGED raw_entities
               ELSE /\ pc' = "build_nodes"
                    /\ raw_entities' = got.raw_entities
                    /\ UNCHANGED graph
    /\ UNCHANGED <<pipeline_log, cleaned, cleaned2, vlog, idx, nodes, fetched, summary_calls, edgeVars, buildVars>>

\* the rest of build
BuildAssemble ==
    /\ pc = "build_nodes"
    /\ \E resps \in SummaryAnswersFor(raw_entities), answers \in RelationAnswerSets :
          LET out == AssembleGraph(raw_entities, resps, answers)
          IN /\ summary_calls' = out.asked
             /\ IF out.raised
                THEN /\ pc' = "raised"
                     /\ UNCHANGED <<nodes, fetched, node_id_list, sparql_log, graph>>
                ELSE /\ nodes' = out.nodes
                     /\ fetched' = resps
                     /\ node_id_list' = out.ids
                     /\ sparql_log' = out.log
                     /\ graph' = out.graph
                     /\ pc' = "build_done"
    /\ UNCHANGED <<pipeline_log, cleaned, cleaned2, vlog, raw_entities, idx, prop_idx, all_edges,
                   buildVars>>

NextBuild == BuildFetch \/ BuildAssemble

SpecBuild == InitBuild /\ [][NextBuild]_vars

\* the calls of the summary source made by the build
SummaryCalls == SelectSeq(fetched, LAMBDA f : f.kind # "notcalled")

\* C19: build does not fail on a fetch that returns zero records: it returns
\* nodes = [] and edges = [] and calls neither the summary source nor the
\* relation source; every graph it returns has one node per fetched record and
\* a sequence of edges.
C19_EmptyFetchGivesEmptyGraph ==
    /\ categories[1].fetch = ReturnedFetch(<<>>) =>
           /\ pc # "raised"
           /\ SummaryCalls = <<>>
           /\ sparql_log = <<>>
           /\ pc = "build_done" => graph.nodes = <<>> /\ graph.edges = <<>>
    /\ pc = "build_done" =>
           /\ Len(graph.nodes) = Len(categories[1].fetch.records)
           /\ DOMAIN graph = {"nodes", "edges"}
           /\ graph.nodes = <<>> => graph.edges = <<>> /\ sparql_log = <<>>

\* build returned the empty graph for a fetch of zero records
C19_Witness ==
    /\ pc = "build_done"
    /\ categories[1].fetch = ReturnedFetch(<<>>)
    /\ graph = NoDataGraph

\* C21: every node of the graph returned by GraphBuilder.build carries a
\* category tag, which is "Unknown" as build is given no label.
C21_EveryNodeTagged ==
    pc = "build_done" =>
        \A k \in DOMAIN graph.nodes :
            /\ "source_genre" \in DOMAIN graph.nodes[k]
            /\ graph.nodes[k]["source_genre"] = "Unknown"

-----------------------------------------------------------------------------
(* claims about the order and the number of outbound calls *)

\* the position in RELATION_MAP of the entry an edge was made for
TableIndex(e) ==
    CHOOSE k \in DOMAIN RELATION_MAP :
        e.detection_method = <<"wikidata", RELATION_MAP[k].property_id>>

\* the (source, target) pairs of a sequence of edges, and of a sequence of rows
EdgePairsOf(es) == [k \in DOMAIN es |-> <<es[k].source, es[k].target>>]
RowPairsOf(rows) ==
    [k \in DOMAIN rows |-> <<LastSegment(rows[k].subject), LastSegment(rows[k].object)>>]

\* C22: the edges of build_edges are in relation-table order, and the edges of
\* one table entry are in the order in which the relation source returned
\* their rows.
C22_EdgeOrder ==
    /\ \A i, j \in DOMAIN all_edges :
           i < j => TableIndex(all_edges[i]) <= TableIndex(all_edges[j])
    /\ \A k \in DOMAIN sparql_log :
           EdgePairsOf(EdgesOf(sparql_log[k].property_id))
               = RowPairsOf(UsableRows(sparql_log[k].answer.rows))

\* build_edges returned two edges of one table entry that are not in sorted
\* order, as their rows were returned
C22_Witness ==
    /\ pc = "edges_built"
    /\ Len(all_edges) = 2
    /\ TableIndex(all_edges[1]) = TableIndex(all_edges[2])
    /\ EdgePairsOf(all_edges) = <<<<"Q2", "Q1">>, <<"Q1", "Q2">>>>

\* the article titles of the records that have one, in record order
RECURSIVE LinkedTitles(_)
LinkedTitles(raws) ==
    IF raws = <<>>
    THEN <<>>
    ELSE (IF Truthy(Head(raws).wikipedia_title)
          THEN <<Head(raws).wikipedia_title>>
          ELSE <<>>) \o LinkedTitles(Tail(raws))

\* C23: in one build the summary source is called exactly once for each record
\* with an article title and never for another record, and the relation source
\* is called exactly once per relation-table entry when there are node ids and
\* never otherwise, whatever the calls answer.
C23_NoRetries ==
    pc = "build_done" =>
        /\ summary_calls = LinkedTitles(raw_entities)
        /\ [k \in DOMAIN sparql_log |-> sparql_log[k].property_id]
               = IF node_id_list = <<>>
                 THEN <<>>
                 ELSE [k \in DOMAIN RELATION_MAP |-> RELATION_MAP[k].property_id]

\* build returned after a summary call and a relation query that both failed,
\* each made once
C23_Witness ==
    /\ pc = "build_done"
    /\ Len(raw_entities) = 1
    /\ fetched[1].kind = "raise"
    /\ summary_calls = <<"T">>
    /\ Len(sparql_log) = Len(RELATION_MAP)
    /\ sparql_log[1].answer.kind = "raise"

-----------------------------------------------------------------------------
(* run_pipeline.py: the end-to-end script *)

\* the records of all categories, each tagged with its category's label; a
\* category whose fetch failed or returned nothing contributes none
RECURSIVE TaggedRecords(_)
TaggedRecords(cats) ==
    IF cats = <<>>
    THEN <<>>
    ELSE TagRecords(Head(cats).fetch.records, Head(cats).genre_tag)
             \o TaggedRecords(Tail(cats))

\* the fields of the Node dataclass, and the keywords dict_to_node passes
NodeFields ==
    {"id", "label", "description", "summary", "wikipedia_title", "wikipedia_url",
     "atu_index", "tags", "embedding"}
DictToNodeKeywords == NodeFields \cup {"source_genre"}

\* dict_to_node: Node(...) raises TypeError on a keyword that is not a field
DictToNode(d) ==
    [raised |-> ~(DictToNodeKeywords \subseteq NodeFields),
     node |-> [f \in NodeFields |-> d[f]]]

InitPipeline ==
    /\ pc = "pipeline_build"
    /\ categories \in CategoryLists
    /\ cat_idx = 0
    /\ raw_entities = <<>>
    /\ idx = 0
    /\ nodes = <<>>
    /\ fetched = <<>>
    /\ summary_calls = <<>>
    /\ pipeline_log = <<>>
    /\ graph = EmptyGraph
    /\ cleaned = EmptyGraph
    /\ cleaned2 = EmptyGraph
    /\ vlog = <<>>
    /\ EdgeBuilderIdle

\* step 1, graph = builder.build(limits=limits): the multi-category build of
\* the spec's Category Merger (MultiGraphBuilder under src/ defines build_multi
\* only)
PipelineBuild ==
    /\ pc = "pipeline_build"
    /\ \E resps \in SummaryAnswersFor(TaggedRecords(categories)),
          answers \in RelationAnswerSets :
          graph' = AssembleMulti(TaggedRecords(categories), resps, answers,
                                 categories).graph
    /\ pipeline_log' = Append(pipeline_log, "build")
    /\ pc' = "pipeline_to_nodes"
    /\ UNCHANGED <<cleaned, cleaned2, vlog, raw_entities, idx, nodes, fetched,
                   summary_calls, edgeVars, buildVars>>

\* step 2: node dictionaries are converted back to Node objects
PipelineToNodes ==
    /\ pc = "pipeline_to_nodes"
    /\ IF graph.nodes # <<>>
       THEN IF \E k \in DOMAIN graph.nodes : DictToNode(graph.nodes[k]).raised
            THEN /\ pc' = "raised"
                 /\ UNCHANGED graph
            ELSE /\ pc' = "pipeline_embed"
                 /\ graph' = [graph EXCEPT !.nodes =
                                 [k \in DOMAIN graph.nodes |->
                                     DictToNode(graph.nodes[k]).node]]
       ELSE /\ pc' = "pipeline_embed"
            /\ UNCHANGED graph
    /\ pipeline_log' = Append(pipeline_log, "to_nodes")
    /\ UNCHANGED <<cleaned, cleaned2, vlog, raw_entities, idx, nodes, fetched,
                   summary_calls, edgeVars, buildVars>>

\* step 3: embed_nodes writes an embedding into every node
PipelineEmbed ==
    /\ pc = "pipeline_embed"
    /\ graph' = [graph EXCEPT !.nodes =
                    [k \in DOMAIN graph.nodes |->
                        [graph.nodes[k] EXCEPT !.embedding = "vector"]]]
    /\ pipeline_log' = Append(pipeline_log, "embed")
    /\ pc' = "pipeline_export"
    /\ UNCHANGED <<cleaned, cleaned2, vlog, raw_entities, idx, nodes, fetched,
                   summary_calls, edgeVars, buildVars>>

\* step 4: exporter.export(graph, ...)
PipelineExport ==
    /\ pc = "pipeline_export"
    /\ pipeline_log' = Append(pipeline_log, "export")
    /\ pc' = "pipeline_convert"
    /\ UNCHANGED <<graph, cleaned, cleaned2, vlog, raw_entities, idx, nodes, fetched,
                   summary_calls, edgeVars, buildVars>>

\* step 5: convert_to_pyg(graph, ...)
PipelineConvert ==
    /\ pc = "pipeline_convert"
    /\ pipeline_log' = Append(pipeline_log, "convert")
    /\ pc' = "pipeline_complete"
    /\ UNCHANGED <<graph, cleaned, cleaned2, vlog, raw_entities, idx, nodes, fetched,
                   summary_calls, edgeVars, buildVars>>

NextPipeline ==
    \/ PipelineBuild
    \/ PipelineToNodes
    \/ PipelineEmbed
    \/ PipelineExport
    \/ PipelineConvert

SpecPipeline == InitPipeline /\ [][NextPipeline]_vars

-----------------------------------------------------------------------------
(* claims about the records and the counts of build_multi *)

\* C25: build_multi leaves the records returned by the entity source as they
\* were returned: no record gains, loses or changes a field.
C25_RawRecordsUntouched ==
    \A k \in DOMAIN categories :
        \A i \in DOMAIN categories[k].fetch.records :
            categories[k].fetch.records[i]["_source_genre"] = Absent

\* C26: the graph returned by build_multi has one node per fetched record, the
\* k-th node made from the k-th record, records with an id already seen
\* included, and its meta counts are the lengths of its nodes and edges.
C26_OneNodePerRecord ==
    pc = "multi_done" =>
        /\ Len(graph.nodes) = Len(raw_entities)
        /\ Len(raw_entities) = RecordsIn(categories)
        /\ \A k \in DOMAIN graph.nodes :
               /\ graph.nodes[k].id = raw_entities[k].id
               /\ graph.nodes[k].atu_index = raw_entities[k].atu_index
               /\ graph.nodes[k].source_genre = raw_entities[k]["_source_genre"]
        /\ graph.meta.total_nodes = Len(graph.nodes)
        /\ graph.meta.total_edges = Len(graph.edges)

\* build_multi returned two nodes with the same id, from two categories
C26_Witness ==
    /\ pc = "multi_done"
    /\ Len(categories) = 2
    /\ Len(graph.nodes) = 2
    /\ graph.nodes[1].id = graph.nodes[2].id
    /\ graph.nodes[1].source_genre # graph.nodes[2].source_genre
    /\ graph.meta.total_nodes = 2

====
